---- MODULE Spec2Model ----
(***************************************************************************)
(* Model of the PDF translation route, server/routes/translate-pdf.ts:     *)
(* the request handler handleTranslatePdf and its two helpers,             *)
(* splitTextIntoChunks and wrapText; and of the upload page that calls the *)
(* route, the component Index.                                            *)
(*                                                                         *)
(* A JavaScript string is a sequence of one-character strings.  Lengths on *)
(* the page are in hundredths of a PDF point, so 841.89 is 84189.          *)
(***************************************************************************)
EXTENDS Integers, Sequences, FiniteSets, TLC

VARIABLES
    pc,               \* position of the handler, or "call"/"return" of a helper
    body,             \* req.body
    apiKey,           \* process.env.DEEPL_API_KEY is set
    translator,       \* a deepl.Translator has been constructed
    extractedText,    \* let extractedText
    textChunks,       \* const textChunks
    chunkIdx,         \* position of the for..of loop over textChunks (1-based)
    translatedChunks, \* const translatedChunks
    calls,            \* the translateText calls issued so far, in order
    translatedText,   \* const translatedText
    lines,            \* const lines
    doc,              \* newPdf: its pages and what has been drawn on them
    yPosition,        \* let yPosition
    lineIdx,          \* position of the for..of loop over lines (1-based)
    responses,        \* what has been sent on res, in order
    arg,              \* arguments of the helper under check
    ret,              \* its return value
    translation,      \* the upload page: const [translation, setTranslation]
    timers,           \* the upload page: the intervals set and not cleared
    upload            \* the upload page: position of the running onDrop

uiVars == <<translation, timers, upload>>

vars == <<pc, body, apiKey, translator, extractedText, textChunks, chunkIdx,
          translatedChunks, calls, translatedText, lines, doc, yPosition,
          lineIdx, responses, arg, ret, uiVars>>

handlerVars == <<body, apiKey, translator, extractedText, textChunks, chunkIdx,
                 translatedChunks, calls, translatedText, lines, doc,
                 yPosition, lineIdx, responses>>

----------------------------------------------------------------------------
(* Bounds of the model                                                     *)

MaxTextLen == 6      \* longest text given to splitTextIntoChunks
MaxSizeBound == 4    \* largest maxChunkSize given to splitTextIntoChunks
MaxWrapLen == 7      \* longest text given to wrapText
MaxChunks == 3       \* longest chunk list given to the translation loop
MaxLines == 100      \* longest line list given to the pagination loop

----------------------------------------------------------------------------
(* JavaScript string primitives                                            *)

\* String.prototype.trim: white space is removed from both ends
IsSpace(c) == c \in {" ", "\n", "\t", "\r"}

RECURSIVE TrimStart(_)
TrimStart(s) ==
    IF s = <<>> THEN <<>>
    ELSE IF IsSpace(Head(s)) THEN TrimStart(Tail(s)) ELSE s

RECURSIVE TrimEnd(_)
TrimEnd(s) ==
    IF s = <<>> THEN <<>>
    ELSE IF IsSpace(s[Len(s)]) THEN TrimEnd(SubSeq(s, 1, Len(s) - 1)) ELSE s

Trim(s) == TrimEnd(TrimStart(s))

\* String.prototype.split(sep) for a non-empty separator: the pieces between
\* the leftmost non-overlapping occurrences of sep; "" splits into [""]
RECURSIVE SplitFrom(_, _, _, _)
SplitFrom(s, sep, i, start) ==
    IF i + Len(sep) - 1 > Len(s)
    THEN <<SubSeq(s, start, Len(s))>>
    ELSE IF SubSeq(s, i, i + Len(sep) - 1) = sep
         THEN <<SubSeq(s, start, i - 1)>>
                  \o SplitFrom(s, sep, i + Len(sep), i + Len(sep))
         ELSE SplitFrom(s, sep, i + 1, start)

Split(s, sep) == SplitFrom(s, sep, 1, 1)

\* Array.prototype.join(sep)
RECURSIVE Join(_, _)
Join(ss, sep) ==
    IF ss = <<>> THEN <<>>
    ELSE IF Len(ss) = 1 THEN ss[1]
    ELSE ss[1] \o sep \o Join(Tail(ss), sep)

\* s.replace(/\s+/g, " "): every maximal run of white space becomes one space
RECURSIVE NormalizeWhitespace(_)
NormalizeWhitespace(s) ==
    IF s = <<>> THEN <<>>
    ELSE IF IsSpace(Head(s))
         THEN <<" ">> \o NormalizeWhitespace(TrimStart(s))
         ELSE <<Head(s)>> \o NormalizeWhitespace(Tail(s))

ParagraphSep == <<"\n", "\n">>
SentenceSep == <<".", " ">>
WordSep == <<" ">>

\* all strings over the alphabet of length at most n
RECURSIVE StringsUpTo(_, _)
StringsUpTo(alphabet, n) ==
    IF n = 0 THEN {<<>>}
    ELSE LET shorter == StringsUpTo(alphabet, n - 1)
         IN  shorter \cup {Append(s, c) : s \in shorter, c \in alphabet}

----------------------------------------------------------------------------
(* splitTextIntoChunks(text, maxChunkSize)                                 *)

\* one iteration of the inner loop, for (const sentence of sentences)
SentenceStep(st, sentence, maxChunkSize) ==
    IF Len(st.currentChunk) + Len(sentence) > maxChunkSize
    THEN IF Len(st.currentChunk) > 0
         THEN [chunks |-> Append(st.chunks, Trim(st.currentChunk)),
               currentChunk |-> sentence \o SentenceSep]
         ELSE [chunks |-> Append(st.chunks, sentence),
               currentChunk |-> st.currentChunk]
    ELSE [chunks |-> st.chunks,
          currentChunk |-> st.currentChunk \o sentence \o SentenceSep]

RECURSIVE SentenceLoop(_, _, _)
SentenceLoop(st, sentences, maxChunkSize) ==
    IF sentences = <<>> THEN st
    ELSE SentenceLoop(SentenceStep(st, Head(sentences), maxChunkSize),
                      Tail(sentences), maxChunkSize)

\* one iteration of the outer loop, for (const paragraph of paragraphs)
ParagraphStep(st, paragraph, maxChunkSize) ==
    IF Len(st.currentChunk) + Len(paragraph) > maxChunkSize
    THEN IF Len(st.currentChunk) > 0
         THEN [chunks |-> Append(st.chunks, Trim(st.currentChunk)),
               currentChunk |-> paragraph]
         ELSE SentenceLoop(st, Split(paragraph, SentenceSep), maxChunkSize)
    ELSE [chunks |-> st.chunks,
          currentChunk |-> st.currentChunk \o paragraph \o ParagraphSep]

RECURSIVE ParagraphLoop(_, _, _)
ParagraphLoop(st, paragraphs, maxChunkSize) ==
    IF paragraphs = <<>> THEN st
    ELSE ParagraphLoop(ParagraphStep(st, Head(paragraphs), maxChunkSize),
                       Tail(paragraphs), maxChunkSize)

splitTextIntoChunks(text, maxChunkSize) ==
    LET st == ParagraphLoop([chunks |-> <<>>, currentChunk |-> <<>>],
                            Split(text, ParagraphSep), maxChunkSize)
    IN  IF Len(st.currentChunk) > 0
        THEN Append(st.chunks, Trim(st.currentChunk))
        ELSE st.chunks

----------------------------------------------------------------------------
(* wrapText(text, maxWidth, fontSize)                                      *)

\* Math.floor(maxWidth / (fontSize * 0.6))
maxCharsPerLine(maxWidth, fontSize) == (maxWidth * 10) \div (fontSize * 6)

\* WordStep with the width test on the line alone, not on the line and the word
WordStepLineOnly(st, word, maxChars) ==
    IF Len(st.currentLine) > maxChars
    THEN IF Len(st.currentLine) > 0
         THEN [lines |-> Append(st.lines, Trim(st.currentLine)),
               currentLine |-> word \o <<" ">>]
         ELSE [lines |-> Append(st.lines, word),
               currentLine |-> st.currentLine]
    ELSE [lines |-> st.lines,
          currentLine |-> st.currentLine \o word \o <<" ">>]

\* one iteration of for (const word of words)
WordStep(st, word, maxChars) ==
    IF Len(st.currentLine \o word) > maxChars
    THEN IF Len(st.currentLine) > 0
         THEN [lines |-> Append(st.lines, Trim(st.currentLine)),
               currentLine |-> word \o <<" ">>]
         ELSE [lines |-> Append(st.lines, word),
               currentLine |-> st.currentLine]
    ELSE [lines |-> st.lines,
          currentLine |-> st.currentLine \o word \o <<" ">>]

RECURSIVE WordLoop(_, _, _)
WordLoop(st, words, maxChars) ==
    IF words = <<>> THEN st
    ELSE WordLoop(WordStep(st, Head(words), maxChars), Tail(words), maxChars)

wrapText(text, maxWidth, fontSize) ==
    LET st == WordLoop([lines |-> <<>>, currentLine |-> <<>>],
                       Split(text, WordSep),
                       maxCharsPerLine(maxWidth, fontSize))
    IN  IF Len(st.currentLine) > 0
        THEN Append(st.lines, Trim(st.currentLine))
        ELSE st.lines

----------------------------------------------------------------------------
(* Page geometry and limits of handleTranslatePdf                          *)

PageWidth == 59528       \* newPdf.addPage([595.28, 841.89])
PageHeight == 84189
fontSize == 1200         \* const fontSize = 12
margin == 5000           \* const margin = 50
maxWidth == PageWidth - 2 * margin
BodyTopOffset == 4000    \* let yPosition = height - margin - 40
BottomReserve == 2000    \* if (yPosition < margin + 20)
LineGap == 400           \* yPosition -= fontSize + 4
FooterY == 3000          \* footer drawn at y: 30
MinTextLength == 20      \* extractedText.length < 20
MaxChunkSize == 5000     \* splitTextIntoChunks(extractedText, 5000)

\* page 1 is the constant `page`; a page added by the loop gets the next number
FirstPage == 1

\* NewDocument with the first page left to the drawing loop
DocumentWithoutPage ==
    [pages |-> 0, header |-> <<>>, body |-> <<>>, footer |-> <<>>]

\* newPdf right after addPage and the header: one page, the header on it
NewDocument ==
    [pages  |-> 1,
     header |-> <<[page |-> FirstPage, y |-> PageHeight - margin,
                   text |-> "Translated Document"]>>,
     body   |-> <<>>,
     footer |-> <<>>]

NoDocument == [pages |-> 0, header |-> <<>>, body |-> <<>>, footer |-> <<>>]

----------------------------------------------------------------------------
(* The texts of the handler                                                *)

\* the template literal of lines 44-60, abbreviated to its heading and its
\* line "Date:"; like the original it is independent of req.body, has blank
\* lines between its paragraphs and is far shorter than MaxChunkSize
ndaText ==
    <<"C", "o", "n", "f", "i", "d", "e", "n", "t", "i", "a", "l", "i", "t",
      "y", " ", "a", "n", "d", " ", "N", "o", "n", "-", "D", "i", "s", "c",
      "l", "o", "s", "u", "r", "e", " ", "A", "g", "r", "e", "e", "m", "e",
      "n", "t", "\n", "\n", "D", "a", "t", "e", ":">>

\* the template literal of lines 67-77, abbreviated to its first and last line
fallbackText ==
    <<"S", "a", "m", "p", "l", "e", " ", "P", "D", "F", " ", "D", "o", "c",
      "u", "m", "e", "n", "t", " ", "C", "o", "n", "t", "e", "n", "t",
      "\n", "\n", "T", "h", "a", "n", "k", " ", "y", "o", "u", ".">>

\* texts carried by uploaded PDFs
helloText ==
    <<"H", "e", "l", "l", "o", " ", "w", "o", "r", "l", "d", ".", " ", "G",
      "o", "o", "d", " ", "m", "o", "r", "n", "i", "n", "g", ".">>

memoText ==
    <<"Q", "u", "a", "r", "t", "e", "r", "l", "y", " ", "r", "e", "p", "o",
      "r", "t", ".", "\n", "\n", "S", "a", "l", "e", "s", " ", "r", "o",
      "s", "e", ".">>

\* texts the translation provider may answer with
bonjourText ==
    <<"B", "o", "n", "j", "o", "u", "r", " ", "l", "e", " ", "m", "o", "n",
      "d", "e", ".">>

accordText ==
    <<"A", "c", "c", "o", "r", "d", " ", "d", "e", " ", "n", "o", "n", "-",
      "d", "i", "v", "u", "l", "g", "a", "t", "i", "o", "n">>

Translations == {bonjourText, accordText, <<"o", "u", "i">>, <<>>}

\* req.body: its length, whether PDFDocument.load accepts it, and the text a
\* text extractor would find in it
EmptyBody == [length |-> 0, loadable |-> FALSE, text |-> <<>>]
PdfBody(t) == [length |-> 1 + Len(t), loadable |-> TRUE, text |-> t]
CorruptBody(n) == [length |-> n, loadable |-> FALSE, text |-> <<>>]

Bodies ==
    {EmptyBody, PdfBody(helloText), PdfBody(memoText), PdfBody(ndaText),
     PdfBody(<<>>), CorruptBody(1), CorruptBody(2)}

\* res.status(code).json({success: false, error})
JsonError(code, message) ==
    [status |-> code, type |-> "json", success |-> FALSE, error |-> message,
     bytes |-> NoDocument]

\* res.setHeader("Content-Type", "application/pdf"); res.end(Buffer.from(pdfBytes))
PdfDownload(d) ==
    [status |-> 200, type |-> "pdf", success |-> TRUE, error |-> "",
     bytes |-> d]

\* a translateText call: its text argument, and how it ended
PendingCall(chunk) == [chunk |-> chunk, state |-> "pending", text |-> <<>>]

----------------------------------------------------------------------------
(* handleTranslatePdf                                                      *)

IdleHelper == arg = <<>> /\ ret = <<>>

\* the value of the optional field error of the upload page while it is unset
NoError == "undefined"

\* the upload page is not part of the request: useState's initial value
IdlePage ==
    /\ translation = [status |-> "idle", progress |-> 0, error |-> NoError]
    /\ timers = 0
    /\ upload = "none"

Init ==
    /\ pc = "start"
    /\ body \in Bodies
    /\ apiKey \in BOOLEAN
    /\ translator = FALSE
    /\ extractedText = <<>>
    /\ textChunks = <<>>
    /\ chunkIdx = 0
    /\ translatedChunks = <<>>
    /\ calls = <<>>
    /\ translatedText = <<>>
    /\ lines = <<>>
    /\ doc = NoDocument
    /\ yPosition = 0
    /\ lineIdx = 0
    /\ responses = <<>>
    /\ IdleHelper
    /\ IdlePage

\* return res.status(..).json(..): the response is sent and the handler ends
Respond(r) ==
    /\ responses' = Append(responses, r)
    /\ pc' = "done"

\* RejectEmptyBody with the credential check placed before the body check
RejectEmptyBodyAfterKey ==
    /\ pc = "start"
    /\ body.length = 0
    /\ IF apiKey
       THEN Respond(JsonError(400, "No PDF data provided in request body"))
       ELSE Respond(JsonError(500, "DeepL API key not configured"))
    /\ UNCHANGED <<body, apiKey, translator, extractedText, textChunks,
                   chunkIdx, translatedChunks, calls, translatedText, lines,
                   doc, yPosition, lineIdx, arg, ret, uiVars>>

\* lines 11-16
RejectEmptyBody ==
    /\ pc = "start"
    /\ body.length = 0
    /\ Respond(JsonError(400, "No PDF data provided in request body"))
    /\ UNCHANGED <<body, apiKey, translator, extractedText, textChunks,
                   chunkIdx, translatedChunks, calls, translatedText, lines,
                   doc, yPosition, lineIdx, arg, ret, uiVars>>

\* RejectMissingKey with the translator constructed before the check
RejectMissingKeyAfterTranslator ==
    /\ pc = "start"
    /\ body.length # 0
    /\ ~apiKey
    /\ translator' = TRUE
    /\ Respond(JsonError(500, "DeepL API key not configured"))
    /\ UNCHANGED <<body, apiKey, extractedText, textChunks,
                   chunkIdx, translatedChunks, calls, translatedText, lines,
                   doc, yPosition, lineIdx, arg, ret, uiVars>>

\* lines 19-24
RejectMissingKey ==
    /\ pc = "start"
    /\ body.length # 0
    /\ ~apiKey
    /\ Respond(JsonError(500, "DeepL API key not configured"))
    /\ UNCHANGED <<body, apiKey, translator, extractedText, textChunks,
                   chunkIdx, translatedChunks, calls, translatedText, lines,
                   doc, yPosition, lineIdx, arg, ret, uiVars>>

\* lines 27-36: the translator is constructed and PDFDocument.load is called
StartLoad ==
    /\ pc = "start"
    /\ body.length # 0
    /\ apiKey
    /\ translator' = TRUE
    /\ pc' = "load"
    /\ UNCHANGED <<body, apiKey, extractedText, textChunks, chunkIdx,
                   translatedChunks, calls, translatedText, lines, doc,
                   yPosition, lineIdx, responses, arg, ret, uiVars>>

\* lines 91-92
ExtractionErrorMessage ==
    "Could not extract readable text from the PDF. Please ensure the PDF contains selectable text (not just images)."

\* lines 81-85
CleanUp(text) ==
    IF text # <<>> THEN Trim(NormalizeWhitespace(text)) ELSE text

\* the values lines 80-97 compute from the text the try or the catch block
\* left: the cleaned text, the test of line 88 and the chunks of line 97
Extraction(text) ==
    LET cleaned == CleanUp(text)
        tooShort == cleaned = <<>> \/ Len(cleaned) < MinTextLength
    IN  [cleaned |-> cleaned,
         tooShort |-> tooShort,
         chunks |-> IF tooShort THEN <<>>
                    ELSE splitTextIntoChunks(cleaned, MaxChunkSize)]

ndaExtraction == Extraction(ndaText)
fallbackExtraction == Extraction(fallbackText)

\* lines 80-97, with extractedText as the try or the catch block left it
AfterExtraction(e) ==
    /\ extractedText' = e.cleaned
    /\ IF e.tooShort
       THEN /\ Respond(JsonError(400, ExtractionErrorMessage))
            /\ UNCHANGED <<textChunks, chunkIdx>>
       ELSE /\ textChunks' = e.chunks
            /\ chunkIdx' = 1
            /\ pc' = "translate"
            /\ UNCHANGED responses

\* lines 36-62: the load succeeded, the text is the literal of lines 44-60
LoadReturn ==
    /\ pc = "load"
    /\ body.loadable
    /\ AfterExtraction(ndaExtraction)
    /\ UNCHANGED <<body, apiKey, translator, translatedChunks, calls,
                   translatedText, lines, doc, yPosition,
                   lineIdx, arg, ret, uiVars>>

\* lines 63-78: the load threw, the text is the literal of lines 67-77
LoadThrow ==
    /\ pc = "load"
    /\ ~body.loadable
    /\ AfterExtraction(fallbackExtraction)
    /\ UNCHANGED <<body, apiKey, translator, translatedChunks, calls,
                   translatedText, lines, doc, yPosition,
                   lineIdx, arg, ret, uiVars>>

\* IssueTranslate with the calls for all the remaining chunks started at once
IssueTranslateAll ==
    /\ pc = "translate"
    /\ chunkIdx <= Len(textChunks)
    /\ calls' = calls \o [i \in 1..(Len(textChunks) - chunkIdx + 1) |->
                              PendingCall(textChunks[chunkIdx + i - 1])]
    /\ pc' = "awaitTranslate"
    /\ UNCHANGED <<body, apiKey, translator, extractedText, textChunks,
                   chunkIdx, translatedChunks, translatedText, lines, doc,
                   yPosition, lineIdx, responses, arg, ret, uiVars>>

\* line 103: translator.translateText(chunk, null, "fr") is called
IssueTranslate ==
    /\ pc = "translate"
    /\ chunkIdx <= Len(textChunks)
    /\ calls' = Append(calls, PendingCall(textChunks[chunkIdx]))
    /\ pc' = "awaitTranslate"
    /\ UNCHANGED <<body, apiKey, translator, extractedText, textChunks,
                   chunkIdx, translatedChunks, translatedText, lines, doc,
                   yPosition, lineIdx, responses, arg, ret, uiVars>>

\* TranslateReturn with unshift in place of push
TranslateReturnUnshift(t) ==
    /\ pc = "awaitTranslate"
    /\ calls' = [calls EXCEPT ![Len(calls)] =
                     [chunk |-> @.chunk, state |-> "ok", text |-> t]]
    /\ translatedChunks' = <<t>> \o translatedChunks
    /\ chunkIdx' = chunkIdx + 1
    /\ pc' = "translate"
    /\ UNCHANGED <<body, apiKey, translator, extractedText, textChunks,
                   translatedText, lines, doc, yPosition, lineIdx, responses,
                   arg, ret, uiVars>>

\* lines 103-104: the call resolved with result.text = t
TranslateReturn(t) ==
    /\ pc = "awaitTranslate"
    /\ calls' = [calls EXCEPT ![Len(calls)] =
                     [chunk |-> @.chunk, state |-> "ok", text |-> t]]
    /\ translatedChunks' = Append(translatedChunks, t)
    /\ chunkIdx' = chunkIdx + 1
    /\ pc' = "translate"
    /\ UNCHANGED <<body, apiKey, translator, extractedText, textChunks,
                   translatedText, lines, doc, yPosition,
                   lineIdx, responses, arg, ret, uiVars>>

\* TranslateThrow without the return: the error is logged and the loop goes on
TranslateThrowContinue ==
    /\ pc = "awaitTranslate"
    /\ calls' = [calls EXCEPT ![Len(calls)] =
                     [chunk |-> @.chunk, state |-> "failed", text |-> <<>>]]
    /\ chunkIdx' = chunkIdx + 1
    /\ pc' = "translate"
    /\ UNCHANGED <<body, apiKey, translator, extractedText, textChunks,
                   translatedChunks, translatedText, lines, doc, yPosition,
                   lineIdx, responses, arg, ret, uiVars>>

\* TranslateThrow with the response sent but the return left out
TranslateThrowNoReturn ==
    /\ pc = "awaitTranslate"
    /\ calls' = [calls EXCEPT ![Len(calls)] =
                     [chunk |-> @.chunk, state |-> "failed", text |-> <<>>]]
    /\ responses' = Append(responses, JsonError(500, "Translation failed"))
    /\ chunkIdx' = chunkIdx + 1
    /\ pc' = "translate"
    /\ UNCHANGED <<body, apiKey, translator, extractedText, textChunks,
                   translatedChunks, translatedText, lines, doc, yPosition,
                   lineIdx, arg, ret, uiVars>>

\* lines 105-111: the call rejected
TranslateThrow ==
    /\ pc = "awaitTranslate"
    /\ calls' = [calls EXCEPT ![Len(calls)] =
                     [chunk |-> @.chunk, state |-> "failed", text |-> <<>>]]
    /\ Respond(JsonError(500, "Translation failed"))
    /\ UNCHANGED <<body, apiKey, translator, extractedText, textChunks,
                   chunkIdx, translatedChunks, translatedText, lines, doc,
                   yPosition, lineIdx, arg, ret, uiVars>>

\* lines 114-117: the loop is over, the chunks are joined and
\* PDFDocument.create is called
JoinChunks ==
    /\ pc = "translate"
    /\ chunkIdx > Len(textChunks)
    /\ translatedText' = Join(translatedChunks, ParagraphSep)
    /\ pc' = "create"
    /\ UNCHANGED <<body, apiKey, translator, extractedText, textChunks,
                   chunkIdx, translatedChunks, calls, lines, doc, yPosition,
                   lineIdx, responses, arg, ret, uiVars>>

\* lines 117-136: the document is created with its first page, the header
\* is drawn, the text is wrapped and the cursor is set
LayOut ==
    /\ pc = "create"
    /\ doc' = NewDocument
    /\ lines' = wrapText(translatedText, maxWidth, fontSize)
    /\ yPosition' = PageHeight - margin - BodyTopOffset
    /\ lineIdx' = 1
    /\ pc' = "draw"
    /\ UNCHANGED <<body, apiKey, translator, extractedText, textChunks,
                   chunkIdx, translatedChunks, calls, translatedText,
                   responses, arg, ret, uiVars>>

\* DrawOnNewPage without the drawText on the new page
AddPageOnly == [doc EXCEPT !.pages = @ + 1]

\* lines 139-148: the cursor is below the body area; a page is added and the
\* line is drawn on it
DrawOnNewPage ==
    LET y == PageHeight - margin
    IN  [doc EXCEPT !.pages = @ + 1,
                    !.body = Append(@, [page |-> doc.pages + 1, y |-> y,
                                        line |-> lineIdx])]

\* lines 149-156: the line is drawn on `page`, the first page
DrawOnPage ==
    [doc EXCEPT !.body = Append(@, [page |-> FirstPage, y |-> yPosition,
                                    line |-> lineIdx])]

\* lines 138-158: one iteration of for (const line of lines)
DrawLine ==
    /\ pc = "draw"
    /\ lineIdx <= Len(lines)
    /\ IF yPosition < margin + BottomReserve
       THEN /\ doc' = DrawOnNewPage
            /\ yPosition' = (PageHeight - margin) - (fontSize + LineGap)
       ELSE /\ doc' = DrawOnPage
            /\ yPosition' = yPosition - (fontSize + LineGap)
    /\ lineIdx' = lineIdx + 1
    /\ UNCHANGED <<pc, body, apiKey, translator, extractedText, textChunks,
                   chunkIdx, translatedChunks, calls, translatedText, lines,
                   responses, arg, ret, uiVars>>

\* lines 160-170: the loop is over, the footer is drawn on `page` and
\* newPdf.save is called
StampFooter ==
    /\ pc = "draw"
    /\ lineIdx > Len(lines)
    /\ doc' = [doc EXCEPT !.footer = Append(@, [page |-> FirstPage,
                                                 y |-> FooterY])]
    /\ pc' = "save"
    /\ UNCHANGED <<body, apiKey, translator, extractedText, textChunks,
                   chunkIdx, translatedChunks, calls, translatedText, lines,
                   yPosition, lineIdx, responses, arg, ret, uiVars>>

\* lines 170-183: the save resolved, the PDF is sent
SaveReturn ==
    /\ pc = "save"
    /\ Respond(PdfDownload(doc))
    /\ UNCHANGED <<body, apiKey, translator, extractedText, textChunks,
                   chunkIdx, translatedChunks, calls, translatedText, lines,
                   doc, yPosition, lineIdx, arg, ret, uiVars>>

\* lines 184-189: PDFDocument.create or newPdf.save rejected
EmitThrow ==
    /\ pc \in {"create", "save"}
    /\ Respond(JsonError(500, "Internal server error during PDF translation"))
    /\ UNCHANGED <<body, apiKey, translator, extractedText, textChunks,
                   chunkIdx, translatedChunks, calls, translatedText, lines,
                   doc, yPosition, lineIdx, arg, ret, uiVars>>

\* lines 184-189: a statement between two awaits threw (new deepl.Translator
\* or Buffer.from of lines 27-30, the clean-up or splitTextIntoChunks of lines
\* 81-97, the join of line 114, wrapText or a drawText of lines 118-167)
StepThrow ==
    /\ \/ pc = "start" /\ body.length # 0 /\ apiKey
       \/ pc \in {"load", "translate", "draw"}
    /\ Respond(JsonError(500, "Internal server error during PDF translation"))
    /\ UNCHANGED <<body, apiKey, translator, extractedText, textChunks,
                   chunkIdx, translatedChunks, calls, translatedText, lines,
                   doc, yPosition, lineIdx, arg, ret, uiVars>>

Next ==
    \/ RejectEmptyBody
    \/ RejectMissingKey
    \/ StartLoad
    \/ LoadReturn
    \/ LoadThrow
    \/ IssueTranslate
    \/ \E t \in Translations : TranslateReturn(t)
    \/ TranslateThrow
    \/ JoinChunks
    \/ LayOut
    \/ DrawLine
    \/ StampFooter
    \/ SaveReturn
    \/ EmitThrow
    \/ StepThrow

Spec == Init /\ [][Next]_vars

\* the handler when every step that can run does run: the statements between
\* two awaits are executed by the event loop, and PDFDocument.load, each
\* translateText call, PDFDocument.create and newPdf.save resolve or reject
SpecFair == Init /\ [][Next]_vars /\ WF_vars(Next)

----------------------------------------------------------------------------
(* The translation loop on every chunk list.  The two literals of the      *)
(* handler are shorter than MaxChunkSize and give one chunk each; here the *)
(* handler is entered at line 99 with any list splitTextIntoChunks may     *)
(* have returned.                                                          *)

LoopChunks == {<<"a">>, <<"b", ".">>}

ChunkLists ==
    UNION {[1..n -> LoopChunks] : n \in 0..MaxChunks}

InitTranslate ==
    /\ pc = "translate"
    /\ body = PdfBody(helloText)
    /\ apiKey = TRUE
    /\ translator = TRUE
    /\ textChunks \in ChunkLists
    /\ extractedText = Join(textChunks, ParagraphSep)
    /\ chunkIdx = 1
    /\ translatedChunks = <<>>
    /\ calls = <<>>
    /\ translatedText = <<>>
    /\ lines = <<>>
    /\ doc = NoDocument
    /\ yPosition = 0
    /\ lineIdx = 0
    /\ responses = <<>>
    /\ IdleHelper
    /\ IdlePage

NextTranslate ==
    \/ IssueTranslate
    \/ \E t \in Translations : TranslateReturn(t)
    \/ TranslateThrow
    \/ JoinChunks
    \/ LayOut
    \/ DrawLine
    \/ StampFooter
    \/ SaveReturn
    \/ EmitThrow
    \/ StepThrow

SpecTranslate == InitTranslate /\ [][NextTranslate]_vars

----------------------------------------------------------------------------
(* The pagination loop on every number of lines: the handler is entered at *)
(* line 136 with any list of lines wrapText may have returned.             *)

InitPaginate ==
    /\ pc = "draw"
    /\ body = PdfBody(helloText)
    /\ apiKey = TRUE
    /\ translator = TRUE
    /\ extractedText = <<>>
    /\ textChunks = <<>>
    /\ chunkIdx = 1
    /\ translatedChunks = <<>>
    /\ calls = <<>>
    /\ translatedText = <<>>
    /\ lines \in {[i \in 1..n |-> <<"a">>] : n \in 0..MaxLines}
    /\ doc = NewDocument
    /\ yPosition = PageHeight - margin - BodyTopOffset
    /\ lineIdx = 1
    /\ responses = <<>>
    /\ IdleHelper
    /\ IdlePage

NextPaginate ==
    \/ DrawLine
    \/ StampFooter
    \/ SaveReturn
    \/ EmitThrow
    \/ StepThrow

SpecPaginate == InitPaginate /\ [][NextPaginate]_vars

----------------------------------------------------------------------------
(* The helpers on every input within the bounds                            *)

IdleHandler ==
    /\ body = EmptyBody
    /\ apiKey = FALSE
    /\ translator = FALSE
    /\ extractedText = <<>>
    /\ textChunks = <<>>
    /\ chunkIdx = 0
    /\ translatedChunks = <<>>
    /\ calls = <<>>
    /\ translatedText = <<>>
    /\ lines = <<>>
    /\ doc = NoDocument
    /\ yPosition = 0
    /\ lineIdx = 0
    /\ responses = <<>>

ChunkAlphabet == {"a", ".", " ", "\n"}

InitSplit ==
    /\ pc = "call"
    /\ arg \in [text : StringsUpTo(ChunkAlphabet, MaxTextLen),
                maxChunkSize : 1..MaxSizeBound]
    /\ ret = <<>>
    /\ IdleHandler
    /\ IdlePage

CallSplit ==
    /\ pc = "call"
    /\ ret' = splitTextIntoChunks(arg.text, arg.maxChunkSize)
    /\ pc' = "return"
    /\ UNCHANGED <<arg, handlerVars, uiVars>>

NextSplit == CallSplit

SpecSplit == InitSplit /\ [][NextSplit]_vars

WrapAlphabet == {"a", " ", "\n"}
WrapWidths == {3, 6, 12}
WrapFontSizes == {5, 10}

InitWrap ==
    /\ pc = "call"
    /\ arg \in [text : StringsUpTo(WrapAlphabet, MaxWrapLen),
                maxWidth : WrapWidths, fontSize : WrapFontSizes]
    /\ ret = <<>>
    /\ IdleHandler
    /\ IdlePage

CallWrap ==
    /\ pc = "call"
    /\ ret' = wrapText(arg.text, arg.maxWidth, arg.fontSize)
    /\ pc' = "return"
    /\ UNCHANGED <<arg, handlerVars, uiVars>>

NextWrap == CallWrap

SpecWrap == InitWrap /\ [][NextWrap]_vars

----------------------------------------------------------------------------
(* The upload page, the component Index: onDrop and resetTranslation       *)

MaxTimers == 2           \* intervals running at once

InitialProgress == 25    \* line 52, progress: 25
ProgressStep == 15       \* prev.progress + 15
ProgressCap == 85        \* Math.min(..., 85)
FullProgress == 100      \* line 84, progress: 100

Min(a, b) == IF a <= b THEN a ELSE b

\* error.message of a rejected arrayBuffer, fetch or blob; a thrown value
\* that is not an Error gives "Translation failed" (line 96)
RejectionMessages == {"Failed to fetch", "Translation failed"}

\* errorData.error || "Translation failed" for the JSON errors of the route,
\* and the message of a rejected response.json()
ErrorBodyMessages ==
    {"No PDF data provided in request body", "DeepL API key not configured",
     ExtractionErrorMessage, "Translation failed",
     "Internal server error during PDF translation",
     "Unexpected end of JSON input"}

\* lines 91-97, the catch block of onDrop; the interval is not touched
Caught(message) ==
    /\ translation' = [status |-> "error", progress |-> 0, error |-> message]
    /\ upload' = "none"
    /\ UNCHANGED timers

\* lines 45-70: a file is dropped on the dropzone, which is rendered only
\* while status is "idle"; the state is set, the interval is started and
\* onDrop waits for file.arrayBuffer()
Drop ==
    /\ upload = "none"
    /\ translation.status = "idle"
    /\ timers < MaxTimers
    /\ translation' = [status |-> "uploading", progress |-> InitialProgress,
                       error |-> NoError]
    /\ timers' = timers + 1
    /\ upload' = "reading"
    /\ UNCHANGED <<pc, handlerVars, arg, ret>>

\* lines 57-62: the callback of a running interval
Tick ==
    /\ timers > 0
    /\ translation' = [translation EXCEPT
                          !.progress = Min(@ + ProgressStep, ProgressCap)]
    /\ UNCHANGED <<timers, upload, pc, handlerVars, arg, ret>>

\* lines 67-69: file.arrayBuffer() resolved and fetch is called
ReadResolve ==
    /\ upload = "reading"
    /\ upload' = "fetching"
    /\ UNCHANGED <<translation, timers, pc, handlerVars, arg, ret>>

\* line 69: file.arrayBuffer() rejected
ReadReject(message) ==
    /\ upload = "reading"
    /\ Caught(message)
    /\ UNCHANGED <<pc, handlerVars, arg, ret>>

\* lines 67-77: fetch resolved with a response; the interval is cleared and
\* the body is read as a blob or as JSON
FetchResolve(ok) ==
    /\ upload = "fetching"
    /\ timers' = timers - 1
    /\ upload' = IF ok THEN "blob" ELSE "json"
    /\ UNCHANGED <<translation, pc, handlerVars, arg, ret>>

\* line 67: fetch rejected
FetchReject(message) ==
    /\ upload = "fetching"
    /\ Caught(message)
    /\ UNCHANGED <<pc, handlerVars, arg, ret>>

\* lines 78-86: response.blob() resolved
BlobResolve ==
    /\ upload = "blob"
    /\ translation' = [status |-> "completed", progress |-> FullProgress,
                       error |-> NoError]
    /\ upload' = "none"
    /\ UNCHANGED <<timers, pc, handlerVars, arg, ret>>

\* line 78: response.blob() rejected
BlobReject(message) ==
    /\ upload = "blob"
    /\ Caught(message)
    /\ UNCHANGED <<pc, handlerVars, arg, ret>>

\* lines 88-89: response.json() resolved and line 89 throws, or it rejected
JsonSettle(message) ==
    /\ upload = "json"
    /\ Caught(message)
    /\ UNCHANGED <<pc, handlerVars, arg, ret>>

\* lines 111-113: resetTranslation, behind the buttons of the "completed"
\* and the "error" views
resetTranslation ==
    /\ translation.status \in {"completed", "error"}
    /\ translation' = [status |-> "idle", progress |-> 0, error |-> NoError]
    /\ UNCHANGED <<timers, upload, pc, handlerVars, arg, ret>>

InitUpload ==
    /\ pc = "idle"
    /\ IdleHandler
    /\ IdleHelper
    /\ IdlePage

NextUpload ==
    \/ Drop
    \/ Tick
    \/ ReadResolve
    \/ \E message \in RejectionMessages : ReadReject(message)
    \/ \E ok \in BOOLEAN : FetchResolve(ok)
    \/ \E message \in RejectionMessages : FetchReject(message)
    \/ BlobResolve
    \/ \E message \in RejectionMessages : BlobReject(message)
    \/ \E message \in ErrorBodyMessages : JsonSettle(message)
    \/ resetTranslation

SpecUpload == InitUpload /\ [][NextUpload]_vars

----------------------------------------------------------------------------
(* Properties of handleTranslatePdf                                        *)

Sent(r) == \E i \in 1..Len(responses) : responses[i] = r
SentPdf == \E i \in 1..Len(responses) : responses[i].type = "pdf"

\* C1: when the body is not empty, the credential is configured and the body
\* cannot be loaded as a PDF, no translation call is made, no PDF is sent, and
\* the request ends with the 400 extraction error.
C1_ExtractionFailureIsAnError ==
    (body.length # 0 /\ apiKey /\ ~body.loadable)
        => /\ calls = <<>>
           /\ ~SentPdf
           /\ pc = "done" => responses = <<JsonError(400, ExtractionErrorMessage)>>

\* C13: an empty body is answered 400 "No PDF data provided in request body"
\* whether the credential is set or not, and nothing else happens: no
\* translator, no load, no translation call, no document.
C13_EmptyBodyRejected ==
    body.length = 0
        => /\ pc \in {"start", "done"}
           /\ ~translator
           /\ extractedText = <<>>
           /\ calls = <<>>
           /\ doc = NoDocument
           /\ pc = "start" => responses = <<>>
           /\ pc = "done"
                  => responses = <<JsonError(400,
                                      "No PDF data provided in request body")>>

C13_Witness ==
    /\ body.length = 0
    /\ ~apiKey
    /\ pc = "done"
    /\ Len(responses) = 1

\* C14: a non-empty body without the credential is answered 500 "DeepL API
\* key not configured"; no translator is constructed, nothing is loaded and
\* no translation call is made.
C14_MissingKeyRejected ==
    (body.length # 0 /\ ~apiKey)
        => /\ pc \in {"start", "done"}
           /\ ~translator
           /\ extractedText = <<>>
           /\ calls = <<>>
           /\ doc = NoDocument
           /\ pc = "start" => responses = <<>>
           /\ pc = "done"
                  => responses = <<JsonError(500, "DeepL API key not configured")>>

C14_Witness ==
    /\ body.loadable
    /\ ~apiKey
    /\ pc = "done"
    /\ Len(responses) = 1

\* the segments of the text the uploaded PDF carries
OwnSegments == splitTextIntoChunks(CleanUp(body.text), MaxChunkSize)

\* C2: the segments sent to the provider are the segments of the text of the
\* request's own PDF, in order.
C2_SegmentsOfOwnText ==
    (body.loadable /\ Len(CleanUp(body.text)) >= MinTextLength)
        => /\ Len(calls) <= Len(OwnSegments)
           /\ \A i \in 1..Len(calls) : calls[i].chunk = OwnSegments[i]

\* C3: when the translation call for segment k fails, the handler answers 500
\* "Translation failed" and nothing else, no document is built, and the call
\* for segment k is the last call issued.
C3_FailedCallEndsRequest ==
    \A k \in 1..Len(calls) :
        calls[k].state = "failed"
            => /\ k = Len(calls)
               /\ calls[k].chunk = textChunks[k]
               /\ pc = "done"
               /\ responses = <<JsonError(500, "Translation failed")>>
               /\ doc = NoDocument

C3_Witness ==
    /\ Len(textChunks) = 3
    /\ Len(calls) = 2
    /\ calls[1].state = "ok"
    /\ calls[2].state = "failed"
    /\ pc = "done"

\* C4: on a successful run there is one translated segment per input segment,
\* the i-th is the provider's result for the i-th input segment, and the text
\* given to wrapText is these results joined in order with "\n\n".
C4_TranslatedSegmentsInOrder ==
    SentPdf
        => /\ Len(translatedChunks) = Len(textChunks)
           /\ Len(calls) = Len(textChunks)
           /\ \A i \in 1..Len(textChunks) :
                  /\ calls[i].chunk = textChunks[i]
                  /\ calls[i].state = "ok"
                  /\ translatedChunks[i] = calls[i].text
           /\ translatedText
                  = Join([i \in 1..Len(calls) |-> calls[i].text], <<"\n", "\n">>)
           /\ lines = wrapText(translatedText, maxWidth, fontSize)

C4_Witness ==
    /\ SentPdf
    /\ Len(textChunks) = 3
    /\ textChunks[1] # textChunks[2]
    /\ calls[1].text # calls[2].text
    /\ calls[2].text # calls[3].text

----------------------------------------------------------------------------
(* Properties of splitTextIntoChunks                                       *)

RECURSIVE StripWhitespace(_)
StripWhitespace(s) ==
    IF s = <<>> THEN <<>>
    ELSE IF IsSpace(Head(s)) THEN StripWhitespace(Tail(s))
         ELSE <<Head(s)>> \o StripWhitespace(Tail(s))

Paragraphs(text) == {Split(text, ParagraphSep)[i] :
                        i \in 1..Len(Split(text, ParagraphSep))}

Sentences(text) ==
    UNION {{Split(p, SentenceSep)[i] : i \in 1..Len(Split(p, SentenceSep))} :
              p \in Paragraphs(text)}

\* a segment that is one paragraph or one sentence of the text, as it stands
\* or trimmed or with its ". ", and that alone is longer than maxSize
SingleOversized(seg, text, maxSize) ==
    \E u \in Paragraphs(text) \cup Sentences(text) :
        /\ Len(u) > maxSize
        /\ seg \in {u, Trim(u), Trim(u \o SentenceSep)}

\* C5: every segment is at most maxSize long, except a segment that is one
\* single paragraph or sentence that alone is longer than maxSize.
C5_SegmentsWithinMaxSize ==
    pc = "return"
        => \A i \in 1..Len(ret) :
               \/ Len(ret[i]) <= arg.maxChunkSize
               \/ SingleOversized(ret[i], arg.text, arg.maxChunkSize)

\* C6: the segments concatenated in order are the text, up to white space.
C6_SegmentsReconstructText ==
    pc = "return"
        => StripWhitespace(Join(ret, <<>>)) = StripWhitespace(arg.text)

\* C7: the empty string gives no segment.
C7_EmptyTextNoSegments ==
    (pc = "return" /\ arg.text = <<>>) => ret = <<>>

\* C8: every segment is trimmed and not empty.
C8_SegmentsTrimmedNonEmpty ==
    pc = "return"
        => \A i \in 1..Len(ret) :
               /\ ret[i] # <<>>
               /\ ~IsSpace(ret[i][1])
               /\ ~IsSpace(ret[i][Len(ret[i])])

\* C18: a paragraph longer than maxSize that holds a sentence separator
\* between two of its sentences is never emitted whole as one segment,
\* wherever it stands in the text.
C18_LongParagraphsAreSplit ==
    pc = "return"
        => \A p \in Paragraphs(arg.text) :
               (Len(p) > arg.maxChunkSize /\ Len(Split(Trim(p), SentenceSep)) > 1)
                   => \A i \in 1..Len(ret) : ret[i] \notin {p, Trim(p)}

----------------------------------------------------------------------------
(* Properties of wrapText                                                  *)

\* the words of the text: its maximal pieces without a space
IsWord(text, a, b) ==
    /\ 1 <= a /\ a <= b /\ b <= Len(text)
    /\ \A k \in a..b : text[k] # " "
    /\ a = 1 \/ text[a - 1] = " "
    /\ b = Len(text) \/ text[b + 1] = " "

LongWords(text, maxChars) ==
    {SubSeq(text, a, b) : <<a, b>> \in
        {w \in (1..Len(text)) \X (1..Len(text)) :
            IsWord(text, w[1], w[2]) /\ w[2] - w[1] + 1 > maxChars}}

\* C9: a line longer than maxCharsPerLine is one single word of the text that
\* alone is longer than maxCharsPerLine, and every such word is a line of its
\* own, not broken.
C9_LinesWithinWidth ==
    pc = "return"
        => LET maxChars == (arg.maxWidth * 10) \div (arg.fontSize * 6)
               long == LongWords(arg.text, maxChars)
           IN  /\ \A i \in 1..Len(ret) :
                      Len(ret[i]) > maxChars
                          => \E w \in long : ret[i] \in {w, Trim(w)}
               /\ \A w \in long :
                      \E i \in 1..Len(ret) : ret[i] \in {w, Trim(w)}

C9_Witness ==
    /\ pc = "return"
    /\ arg.maxWidth = 6 /\ arg.fontSize = 5
    /\ Len(ret) = 3
    /\ Len(ret[1]) = 1
    /\ Len(ret[2]) = 3
    /\ Len(ret[3]) = 1

----------------------------------------------------------------------------
(* Properties of the pagination                                            *)

\* C10: every line the loop has passed is drawn exactly once, on a page of the
\* document, and once the loop is over there are as many drawn lines as lines.
C10_EveryLineDrawnOnce ==
    pc \in {"draw", "save", "done"}
        => /\ \A i \in 1..(lineIdx - 1) :
                  Cardinality({k \in 1..Len(doc.body) : doc.body[k].line = i}) = 1
           /\ \A k \in 1..Len(doc.body) :
                  /\ doc.body[k].line \in 1..(lineIdx - 1)
                  /\ doc.body[k].page \in 1..doc.pages
           /\ (pc = "save" \/ SentPdf) => Len(doc.body) = Len(lines)

C10_Witness ==
    /\ pc = "save"
    /\ Len(lines) > 90
    /\ doc.pages >= 3

\* C15: every request that ends has sent one response; after a failure of any
\* step (the load, a translation call, an exception) it is a JSON error
\* {success: false, error} with status 400 or 500, never the 200 PDF.
NoStepFailed ==
    /\ body.loadable
    /\ \A k \in 1..Len(calls) : calls[k].state = "ok"

C15_FailuresAnswerJsonError ==
    pc = "done"
        => /\ Len(responses) = 1
           /\ responses[1].type = "json"
                  => /\ ~responses[1].success
                     /\ responses[1].status \in {400, 500}
                     /\ responses[1].error # ""
                     /\ responses[1].bytes = NoDocument
           /\ responses[1].type = "pdf"
                  => /\ responses[1].status = 200
                     /\ NoStepFailed

\* C16: the calls are made one at a time and in order: the k-th call is for
\* the k-th segment, a call is issued only when all the calls before it have
\* returned a result, the handler is suspended exactly while a call is in
\* flight, and the document is begun only when every segment has its result.
C16_OneCallAtATime ==
    /\ Len(calls) <= Len(textChunks)
    /\ \A k \in 1..Len(calls) :
           /\ calls[k].chunk = textChunks[k]
           /\ k < Len(calls) => calls[k].state = "ok"
           /\ calls[k].state = "pending" <=> (k = Len(calls) /\ pc = "awaitTranslate")
    /\ pc = "awaitTranslate" => Len(calls) = chunkIdx
    /\ (pc \in {"create", "draw", "save"} \/ doc # NoDocument \/ lines # <<>>)
           => /\ Len(calls) = Len(textChunks)
              /\ \A k \in 1..Len(calls) : calls[k].state = "ok"

C16_Witness ==
    /\ pc = "awaitTranslate"
    /\ Len(textChunks) = 3
    /\ Len(calls) = 3
    /\ calls[2].state = "ok"
    /\ calls[3].state = "pending"

\* C17: when every external call returns or fails, the request ends with
\* exactly one response sent, and at no time has a second one been sent.
C17_ExactlyOneResponse ==
    /\ <>(pc = "done" /\ Len(responses) = 1)
    /\ [](Len(responses) <= 1)
    /\ [](pc = "done" => Len(responses) = 1)

C17_Witness ==
    /\ pc = "done"
    /\ Len(responses) = 1
    /\ SentPdf
    /\ Len(calls) = 1

\* C11: the lines are drawn on the pages in order: once a line is drawn on a
\* page added for an overflow, no later line is drawn on an earlier page, and
\* each line is on the page that was the last one when it was drawn.
C11_LinesStayOnNewPage ==
    \A k \in 1..(Len(doc.body) - 1) :
        doc.body[k].page <= doc.body[k + 1].page

\* C19: on each page the y coordinates of the drawn body lines are pairwise
\* distinct.
C19_DistinctPositionsOnPage ==
    \A j, k \in 1..Len(doc.body) :
        (j # k /\ doc.body[j].page = doc.body[k].page)
            => doc.body[j].y # doc.body[k].y

\* C12: a document that is sent has at least one page, and its first page
\* carries the header "Translated Document" and the footer, also when the
\* translated text is empty.
C12_SentDocumentHasFirstPage ==
    \A i \in 1..Len(responses) :
        responses[i].type = "pdf"
            => LET d == responses[i].bytes
               IN  /\ d.pages >= 1
                   /\ Len(d.header) = 1
                   /\ d.header[1].page = 1
                   /\ d.header[1].text = "Translated Document"
                   /\ Len(d.footer) = 1
                   /\ d.footer[1].page = 1

C12_Witness ==
    /\ SentPdf
    /\ Len(textChunks) = 1
    /\ translatedText = <<>>
    /\ lines = << <<>> >>
    /\ Len(doc.body) = 1

----------------------------------------------------------------------------
(* Properties of the upload page                                           *)

\* C20: the progress timer of an upload attempt is stopped when the attempt
\* ends, whether the fetch resolved or rejected, so that no interval runs
\* while no attempt is running, and progress is settled once an attempt has
\* ended: it is 100 whenever status is "completed" and 0 whenever status is
\* "idle" or "error"
C20_ProgressSettledAfterAttempt ==
    /\ upload = "none" => timers = 0
    /\ translation.status = "completed" => translation.progress = FullProgress
    /\ translation.status \in {"idle", "error"} => translation.progress = 0

====
